---- MODULE Spec2Model ----
(***************************************************************************)
(* Model of src/vs/workbench/contrib/chat/browser/contrib/                 *)
(* chatInputEditorContrib.ts:                                              *)
(*   - sortSlashCommandsByYieldTo (lines 641-707), as a function applied   *)
(*     in one step (Spec, SpecWide) and as the recursion of visit unfolded *)
(*     into calls and returns (SpecVisit);                                 *)
(*   - ChatDynamicReferenceModel (lines 52-103) (SpecRefs);                *)
(*   - InputEditorDecorations (lines 107-328) and                          *)
(*     InputEditorSlashCommandMode (lines 330-359), each await a step of   *)
(*     its own (SpecInput);                                                *)
(* and of src/vs/workbench/contrib/terminal/node/terminalEnvironment.ts:   *)
(*   - getMainProcessParentEnv (lines 12-81), each await a step of its own *)
(*     (SpecEnv);                                                          *)
(*   - findExecutable (lines 83-134), as a function applied in one step    *)
(*     (SpecFind).                                                         *)
(*                                                                         *)
(* A slash command is an object; the code compares objects by identity     *)
(* (Map<T, T[]>, Set<T>, Array.includes).  The model names an object by    *)
(* its index in the input array, so the output of the sort is a sequence   *)
(* of indices of the input.                                                *)
(***************************************************************************)
EXTENDS Integers, Sequences, FiniteSets, TLC

\* ------------------------------------------------------------------------
\* Bounds of the model
\* ------------------------------------------------------------------------
\* longest input array of sortSlashCommandsByYieldTo under Spec
MaxLen == 4
\* most yieldsTo entries of one input array, all its commands together, under Spec
MaxRefs == 2
\* the same under SpecWide and SpecVisit
WideRefs == 3
\* longest input array under SpecVisit
VisitMaxLen == 3
\* last column of the input editor's lines under SpecRefs
MaxCol == 3
\* most runs of updateInputEditorDecorations at their await at a time
MaxRuns == 2
\* most calls of repopulateSlashCommand at their await at a time
MaxRepopulating == 1
\* the pids of /proc under SpecEnv
MaxPid == 3
\* most calls of getMainProcessParentEnv of a behaviour
MaxCalls == 2
\* most references ChatDynamicReferenceModel tracks
MaxTracked == 2
\* longest text of a content change
MaxText == 1

\* The identifiers a command or a yieldsTo entry can carry.  The code only
\* compares identifiers for equality, so the inputs are enumerated up to a
\* renaming of the identifiers: the first command is "a", and a command
\* carries an identifier already used or the next unused one.
CommandNames == <<"a", "b", "c">>

Max(S) == CHOOSE m \in S : \A x \in S : x <= m

IdPatterns(n) ==
    {c \in [1..n -> 1..Len(CommandNames)] :
        \A i \in 1..n : c[i] <= 1 + Max({c[j] : j \in 1..(i-1)} \cup {0})}

\* k yieldsTo entries as (owner index, target identifier) pairs, listed by owner
RefLists(n, k) ==
    {r \in [1..k -> (1..n) \X (1..Len(CommandNames))] :
        \A i \in 1..(k-1) : r[i][1] <= r[i+1][1]}

RECURSIVE YieldsOf(_, _, _)
YieldsOf(r, owner, from) ==
    IF from > Len(r) THEN <<>>
    ELSE IF r[from][1] = owner
         THEN <<[command |-> CommandNames[r[from][2]]]>> \o YieldsOf(r, owner, from + 1)
         ELSE YieldsOf(r, owner, from + 1)

MakeInput(c, r) ==
    [i \in 1..Len(c) |-> [command |-> CommandNames[c[i]], yieldsTo |-> YieldsOf(r, i, 1)]]

\* the input arrays of at most maxLen commands and maxRefs yieldsTo entries
IsInput(slashCommands, maxLen, maxRefs) ==
    \E n \in 0..maxLen : \E c \in IdPatterns(n) :
        \E k \in 0..(IF n = 0 THEN 0 ELSE maxRefs) : \E r \in RefLists(n, k) :
            slashCommands = MakeInput(c, r)

\* ------------------------------------------------------------------------
\* sortSlashCommandsByYieldTo
\* ------------------------------------------------------------------------
Indices(slashCommands) == 1..Len(slashCommands)

\* Array.from(slashCommands): the objects in input order
ArrayFrom(slashCommands) == [i \in 1..Len(slashCommands) |-> i]

\* function yieldsTo(yTo, other), line 645
yieldsToWrong(yTo, other) == "command" \in DOMAIN yTo
yieldsTo(yTo, other) == "command" \in DOMAIN yTo /\ other.command = yTo.command

\* line 654: other.command === slashCommand.command, the candidates skipped
sameCommandNever(other, slashCommand) == FALSE
sameCommand(other, slashCommand) == other.command = slashCommand.command

\* lines 653-666 for one yTo of one slashCommand: the others pushed, in input order
RECURSIVE othersOf(_, _, _, _)
othersOf(slashCommands, i, yTo, j) ==
    IF j > Len(slashCommands) THEN <<>>
    ELSE IF sameCommand(slashCommands[j], slashCommands[i]) THEN othersOf(slashCommands, i, yTo, j + 1)
    ELSE IF yieldsTo(yTo, slashCommands[j]) THEN <<j>> \o othersOf(slashCommands, i, yTo, j + 1)
    ELSE othersOf(slashCommands, i, yTo, j + 1)

\* lines 652-667 for one slashCommand: the array built for it over all its yTo
RECURSIVE arrOf(_, _, _)
arrOf(slashCommands, i, y) ==
    IF y > Len(slashCommands[i].yieldsTo) THEN <<>>
    ELSE othersOf(slashCommands, i, slashCommands[i].yieldsTo[y], 1) \o arrOf(slashCommands, i, y + 1)

\* lines 650-668: an entry exists only for a command for which an other was pushed
yieldsToMap(slashCommands) ==
    [i \in {k \in Indices(slashCommands) : arrOf(slashCommands, k, 1) # <<>>}
        |-> arrOf(slashCommands, i, 1)]

\* tempStack.includes(node), line 684
includesNever(stack, node) == FALSE
includes(stack, node) == \E k \in 1..Len(stack) : stack[k] = node

\* tempStack.pop(), line 698
popNothing(stack) == stack
pop(stack) == SubSeq(stack, 1, Len(stack) - 1)

\* line 686: what visit returns when nodes[0] is on tempStack
cycleReturn(nodes) == nodes

\* line 703: [...pre, node, ...visit(nodes.slice(1))]
spreadNodeLast(pre, node, rest) == pre \o rest \o <<node>>
spreadNoNode(pre, node, rest) == pre \o rest
spread(pre, node, rest) == pre \o <<node>> \o rest

\* line 670: !yieldsToMap.size
noEdgesInverted(map) == DOMAIN map # {}
noEdges(map) == DOMAIN map = {}

\* function visit(nodes), lines 678-704.  st carries the variables the closure
\* shares between its calls: visited, tempStack, and the console.warn calls
\* made so far (warned: the nodes named), plus the count of calls of visit.
RECURSIVE visit(_, _, _)
visit(map, nodes, st) ==
    LET s0 == [st EXCEPT !.calls = @ + 1] IN
    IF nodes = <<>> THEN [res |-> <<>>, st |-> s0]
    ELSE
    LET node == Head(nodes) IN
    IF includes(s0.tempStack, node)
    THEN [res |-> cycleReturn(nodes), st |-> [s0 EXCEPT !.warned = Append(@, node)]]
    ELSE IF node \in s0.visited
    THEN visit(map, Tail(nodes), s0)
    ELSE
    LET hasYTo == node \in DOMAIN map
        r1 == IF hasYTo
              THEN visit(map, map[node], [s0 EXCEPT !.tempStack = Append(@, node)])
              ELSE [res |-> <<>>, st |-> s0]
        s1 == IF hasYTo THEN [r1.st EXCEPT !.tempStack = pop(@)] ELSE r1.st
        s2 == [s1 EXCEPT !.visited = @ \cup {node}]
        r2 == visit(map, Tail(nodes), s2)
    IN [res |-> spread(r1.res, node, r2.res), st |-> r2.st]

VisitInit == [visited |-> {}, tempStack |-> <<>>, warned |-> <<>>, calls |-> 0]

\* sortSlashCommandsByYieldTo(slashCommands), lines 641-707
sortSlashCommandsByYieldTo(slashCommands) ==
    LET map == yieldsToMap(slashCommands) IN
    IF noEdges(map)
    THEN [res |-> ArrayFrom(slashCommands), st |-> VisitInit, early |-> TRUE]
    ELSE LET r == visit(map, ArrayFrom(slashCommands), VisitInit)
         IN [res |-> r.res, st |-> r.st, early |-> FALSE]

\* ------------------------------------------------------------------------
\* State
\* ------------------------------------------------------------------------
VARIABLES
    \* a call of sortSlashCommandsByYieldTo
    called,      \* whether the call has returned
    input,       \* the argument slashCommands
    output,      \* the array returned
    warned,      \* the nodes named by the console.warn calls, in order
    early,       \* whether the call returned at line 671
    \* the same call under SpecVisit, one call or return of visit per step
    pc,          \* "ready", "visit" (a call of visit begins), "return", "done"
    yMap,        \* the Map yieldsToMap, once built
    args,        \* the argument nodes of the call of visit that begins
    ret,         \* the array being returned by a call of visit
    frames,      \* the calls of visit awaiting the result of a nested call
    visited,     \* the Set visited
    tempStack,   \* the array tempStack
    steps,       \* calls and returns made so far
    \* ChatDynamicReferenceModel
    references,  \* the array this.references
    decorations, \* the decorations last given to setDecorationsByType
    touched,     \* for each reference of this.references, whether its range
                 \* intersected the change of the last content-change event
    last,        \* the operation that ran last: "none", "add", "change"
    was,         \* for each reference of this.references its index in
                 \* this.references before the operation that ran last, 0 for
                 \* the reference that operation added
    ahead,       \* for each reference of this.references, whether it started
                 \* before every change of the last content-change event
    shifted,     \* for each reference of this.references, whether the last
                 \* content-change event gave it another range
    \* the chat input editor, InputEditorDecorations, InputEditorSlashCommandMode
    value,       \* widget.inputEditor.getValue()
    viewModel,   \* widget.viewModel
    previouslyUsedSlashCommands,  \* this._previouslyUsedSlashCommands
    runs,        \* the runs of updateInputEditorDecorations at their await: for
                 \* each value of inputValue, how many hold it
    repopulating,     \* the calls of repopulateSlashCommand at their await
    inputDecorations, \* the decorations of placeholderDecorationType,
                      \* slashCommandTextDecorationType, variableTextDecorationType
    written,     \* what the last step's setValue of line 354 wrote, if it ran
    \* terminalEnvironment.ts
    platform,    \* "linux", "mac" or "windows": which of isLinux, isMacintosh,
                 \* isWindows holds
    procfs,      \* the processes of /proc
    heap,        \* the variables of each environment object
    mainProcessParentEnv,  \* the module's variable of line 12
    calls,       \* the calls of getMainProcessParentEnv at an await
    started,     \* the calls of getMainProcessParentEnv made so far
    computations,  \* the calls that have assigned mainProcessParentEnv
    firstReturned, \* the object the first call that returned returned
    returned,    \* the call the last step settled, if it settled one
    findArgs,    \* the arguments of a call of findExecutable
    onDisk,      \* the paths exists is true of
    findResult,  \* what the call of findExecutable returned
    findDone     \* whether it has returned

sortVars == <<called, input, output, warned, early>>
visitVars == <<pc, yMap, args, ret, frames, visited, tempStack, steps>>
refVars == <<references, decorations, touched, last, was, ahead, shifted>>
inputVars == <<value, viewModel, previouslyUsedSlashCommands, runs, repopulating,
               inputDecorations, written>>
envVars == <<procfs, heap, mainProcessParentEnv, calls, started, computations, firstReturned,
             returned>>
findVars == <<findArgs, onDisk, findResult, findDone>>
termVars == <<platform, envVars, findVars>>
vars == <<sortVars, visitVars, refVars, inputVars, termVars>>

VisitIdle ==
    /\ pc = "ready"
    /\ yMap = <<>>
    /\ args = <<>>
    /\ ret = <<>>
    /\ frames = <<>>
    /\ visited = {}
    /\ tempStack = <<>>
    /\ steps = 0

RefsIdle ==
    /\ references = <<>>
    /\ decorations = <<>>
    /\ touched = <<>>
    /\ last = "none"
    /\ was = <<>>
    /\ ahead = <<>>
    /\ shifted = <<>>

InputIdle ==
    /\ value = <<>>
    /\ viewModel = <<>>
    /\ previouslyUsedSlashCommands = {}
    /\ runs = <<>>
    /\ repopulating = <<>>
    /\ inputDecorations = <<>>
    /\ written = <<>>

EnvIdle ==
    /\ procfs = <<>>
    /\ heap = <<>>
    /\ mainProcessParentEnv = <<>>
    /\ calls = <<>>
    /\ started = 0
    /\ computations = 0
    /\ firstReturned = <<>>
    /\ returned = <<>>

FindIdle ==
    /\ findArgs = <<>>
    /\ onDisk = {}
    /\ findResult = <<>>
    /\ findDone = FALSE

TermIdle ==
    /\ platform = "none"
    /\ EnvIdle
    /\ FindIdle

SortIdle ==
    /\ called = FALSE
    /\ output = <<>>
    /\ warned = <<>>
    /\ early = FALSE

\* ------------------------------------------------------------------------
\* Spec: one call of sortSlashCommandsByYieldTo, applied in one step.  The
\* function keeps no state between calls, so one call per behaviour covers it.
\* ------------------------------------------------------------------------
Init ==
    /\ IsInput(input, MaxLen, MaxRefs)
    /\ SortIdle
    /\ VisitIdle
    /\ RefsIdle
    /\ InputIdle
    /\ TermIdle

Sort ==
    LET r == sortSlashCommandsByYieldTo(input) IN
    /\ called = FALSE
    /\ called' = TRUE
    /\ output' = r.res
    /\ warned' = r.st.warned
    /\ early' = r.early
    /\ UNCHANGED <<input, visitVars, refVars, inputVars, termVars>>

Next == Sort

Spec == Init /\ [][Next]_vars

\* SpecWide: the same call with one more yieldsTo entry in the input
InitWide ==
    /\ IsInput(input, MaxLen, WideRefs)
    /\ SortIdle
    /\ VisitIdle
    /\ RefsIdle
    /\ InputIdle
    /\ TermIdle

SpecWide == InitWide /\ [][Next]_vars

\* ------------------------------------------------------------------------
\* SpecVisit: the same call, the recursion of visit unfolded.  A frame is a
\* call of visit(nodes) that waits for a nested call: at "seen" for line 690,
\* at "pre" for line 697, at "rest" for line 703 (pre: the array pre).
\* ------------------------------------------------------------------------
InitVisit ==
    /\ IsInput(input, VisitMaxLen, WideRefs)
    /\ SortIdle
    /\ VisitIdle
    /\ RefsIdle
    /\ InputIdle
    /\ TermIdle

Push(at, pre) == Append(frames, [at |-> at, nodes |-> args, pre |-> pre])
Top == frames[Len(frames)]

\* lines 649-672: no edge was resolved
EarlyReturn ==
    /\ pc = "ready"
    /\ noEdges(yieldsToMap(input))
    /\ output' = ArrayFrom(input)
    /\ early' = TRUE
    /\ called' = TRUE
    /\ pc' = "done"
    /\ steps' = steps + 1
    /\ UNCHANGED <<refVars, inputVars, termVars, input, warned, yMap, args, ret, frames, visited, tempStack>>

\* lines 674-676 and 706: visit(Array.from(slashCommands))
StartVisit ==
    /\ pc = "ready"
    /\ ~noEdges(yieldsToMap(input))
    /\ yMap' = yieldsToMap(input)
    /\ args' = ArrayFrom(input)
    /\ pc' = "visit"
    /\ steps' = steps + 1
    /\ UNCHANGED <<refVars, inputVars, termVars, sortVars, ret, frames, visited, tempStack>>

\* lines 679-681
VisitEmpty ==
    /\ pc = "visit"
    /\ args = <<>>
    /\ ret' = <<>>
    /\ pc' = "return"
    /\ steps' = steps + 1
    /\ UNCHANGED <<refVars, inputVars, termVars, sortVars, yMap, args, frames, visited, tempStack>>

\* lines 683-687
VisitCycle ==
    /\ pc = "visit"
    /\ args # <<>>
    /\ includes(tempStack, Head(args))
    /\ warned' = Append(warned, Head(args))
    /\ ret' = cycleReturn(args)
    /\ pc' = "return"
    /\ steps' = steps + 1
    /\ UNCHANGED <<refVars, inputVars, termVars, called, input, output, early, yMap, args, frames, visited, tempStack>>

\* lines 689-691
VisitSeen ==
    /\ pc = "visit"
    /\ args # <<>>
    /\ ~includes(tempStack, Head(args))
    /\ Head(args) \in visited
    /\ frames' = Push("seen", <<>>)
    /\ args' = Tail(args)
    /\ steps' = steps + 1
    /\ UNCHANGED <<refVars, inputVars, termVars, sortVars, yMap, pc, ret, visited, tempStack>>

\* lines 693-697: the node has an entry in yieldsToMap
VisitYield ==
    /\ pc = "visit"
    /\ args # <<>>
    /\ ~includes(tempStack, Head(args))
    /\ Head(args) \notin visited
    /\ Head(args) \in DOMAIN yMap
    /\ tempStack' = Append(tempStack, Head(args))
    /\ frames' = Push("pre", <<>>)
    /\ args' = yMap[Head(args)]
    /\ steps' = steps + 1
    /\ UNCHANGED <<refVars, inputVars, termVars, sortVars, yMap, pc, ret, visited>>

\* lines 693-703: the node has no entry in yieldsToMap
VisitPlain ==
    /\ pc = "visit"
    /\ args # <<>>
    /\ ~includes(tempStack, Head(args))
    /\ Head(args) \notin visited
    /\ Head(args) \notin DOMAIN yMap
    /\ visited' = visited \cup {Head(args)}
    /\ frames' = Push("rest", <<>>)
    /\ args' = Tail(args)
    /\ steps' = steps + 1
    /\ UNCHANGED <<refVars, inputVars, termVars, sortVars, yMap, pc, ret, tempStack>>

\* line 690: return visit(nodes.slice(1))
ReturnSeen ==
    /\ pc = "return"
    /\ frames # <<>>
    /\ Top.at = "seen"
    /\ frames' = SubSeq(frames, 1, Len(frames) - 1)
    /\ steps' = steps + 1
    /\ UNCHANGED <<refVars, inputVars, termVars, sortVars, yMap, pc, args, ret, visited, tempStack>>

\* lines 697-703: pre = visit(yTo) returned
ReturnPre ==
    /\ pc = "return"
    /\ frames # <<>>
    /\ Top.at = "pre"
    /\ tempStack' = pop(tempStack)
    /\ visited' = visited \cup {Head(Top.nodes)}
    /\ frames' = [frames EXCEPT ![Len(frames)] = [at |-> "rest", nodes |-> Top.nodes, pre |-> ret]]
    /\ args' = Tail(Top.nodes)
    /\ pc' = "visit"
    /\ steps' = steps + 1
    /\ UNCHANGED <<refVars, inputVars, termVars, sortVars, yMap, ret>>

\* line 703: visit(nodes.slice(1)) returned
ReturnRest ==
    /\ pc = "return"
    /\ frames # <<>>
    /\ Top.at = "rest"
    /\ ret' = spread(Top.pre, Head(Top.nodes), ret)
    /\ frames' = SubSeq(frames, 1, Len(frames) - 1)
    /\ steps' = steps + 1
    /\ UNCHANGED <<refVars, inputVars, termVars, sortVars, yMap, pc, args, visited, tempStack>>

\* line 706: the outermost call of visit returned
ReturnTop ==
    /\ pc = "return"
    /\ frames = <<>>
    /\ output' = ret
    /\ called' = TRUE
    /\ pc' = "done"
    /\ steps' = steps + 1
    /\ UNCHANGED <<refVars, inputVars, termVars, input, warned, early, yMap, args, ret, frames, visited, tempStack>>

NextVisit ==
    \/ EarlyReturn
    \/ StartVisit
    \/ VisitEmpty
    \/ VisitCycle
    \/ VisitSeen
    \/ VisitYield
    \/ VisitPlain
    \/ ReturnSeen
    \/ ReturnPre
    \/ ReturnRest
    \/ ReturnTop

SpecVisit == InitVisit /\ [][NextVisit]_vars

\* the unfolded recursion returns what the function visit returns
VisitAgrees ==
    pc = "done" =>
        LET r == sortSlashCommandsByYieldTo(input)
        IN output = r.res /\ warned = r.st.warned /\ early = r.early

\* ------------------------------------------------------------------------
\* ChatDynamicReferenceModel, lines 52-103
\* ------------------------------------------------------------------------
LineNumbers == {1, 2}
Uris == {"file1", "file2"}

\* the ranges addReference is called with (lines 571-574): on one line, from
\* range.startColumn to range.startColumn + text.length
RefRanges ==
    {r \in [startLineNumber : LineNumbers, startColumn : 1..MaxCol,
            endLineNumber : LineNumbers, endColumn : 1..MaxCol] :
        r.startLineNumber = r.endLineNumber /\ r.startColumn < r.endColumn}

\* the ranges a content change replaces: empty for an insertion, possibly over lines
ChangeRanges ==
    {r \in [startLineNumber : LineNumbers, startColumn : 1..MaxCol,
            endLineNumber : LineNumbers, endColumn : 1..MaxCol] :
        \/ r.startLineNumber < r.endLineNumber
        \/ r.startLineNumber = r.endLineNumber /\ r.startColumn <= r.endColumn}

\* IModelContentChange: range, rangeLength (the length of the text replaced) and
\* text (its length).  A range over several lines starts at the end of its first
\* line: it replaces the line breaks and the columns before endColumn.
Change(range, textLength) ==
    [range |-> range,
     rangeLength |-> IF range.startLineNumber = range.endLineNumber
                     THEN range.endColumn - range.startColumn
                     ELSE (range.endLineNumber - range.startLineNumber)
                              + (range.endColumn - 1),
     textLength |-> textLength]

\* Range.areIntersecting(a, b) of vs/editor/common/core/range
areIntersecting(a, b) ==
    IF \/ a.endLineNumber < b.startLineNumber
       \/ (a.endLineNumber = b.startLineNumber /\ a.endColumn <= b.startColumn)
    THEN FALSE
    ELSE IF \/ b.endLineNumber < a.startLineNumber
            \/ (b.endLineNumber = a.startLineNumber /\ b.endColumn <= a.startColumn)
    THEN FALSE
    ELSE TRUE

\* Range.compareRangesUsingStarts(a, b) of vs/editor/common/core/range
compareRangesUsingStarts(a, b) ==
    IF a.startLineNumber = b.startLineNumber
    THEN IF a.startColumn = b.startColumn
         THEN IF a.endLineNumber = b.endLineNumber
              THEN a.endColumn - b.endColumn
              ELSE a.endLineNumber - b.endLineNumber
         ELSE a.startColumn - b.startColumn
    ELSE a.startLineNumber - b.startLineNumber

\* this.references.splice(i, 1), line 70, i counted from 1
splice(refs, i) == SubSeq(refs, 1, i - 1) \o SubSeq(refs, i + 1, Len(refs))

movedStart(ref, c) ==
    [ref EXCEPT !.range.startColumn = @ + (c.textLength - c.rangeLength)]

\* lines 72-78: the reference moved by the change
moved(ref, c) ==
    LET delta == c.textLength - c.rangeLength IN
    [ref EXCEPT !.range = [startLineNumber |-> ref.range.startLineNumber,
                           startColumn |-> ref.range.startColumn + delta,
                           endLineNumber |-> ref.range.endLineNumber,
                           endColumn |-> ref.range.endColumn + delta]]

\* this.references.forEach((ref, i) => ...), lines 67-80.  Array.prototype.forEach
\* reads the length once (len) and calls back for each index below it that the
\* array still has when it is reached; i counts from 1.
RECURSIVE forEachRef(_, _, _, _)
forEachRef(refs, c, i, len) ==
    IF i > len THEN refs
    ELSE IF i > Len(refs) THEN forEachRef(refs, c, i + 1, len)
    ELSE IF areIntersecting(refs[i].range, c.range)
    THEN forEachRef(splice(refs, i), c, i + 1, len)
    ELSE IF compareRangesUsingStarts(refs[i].range, c.range) > 0
    THEN forEachRef(SubSeq(refs, 1, i - 1) \o <<moved(refs[i], c)>> \o SubSeq(refs, i + 1, Len(refs)),
                    c, i + 1, len)
    ELSE forEachRef(refs, c, i + 1, len)

\* e.changes.forEach(c => ...), lines 66-81
RECURSIVE changesForEach(_, _, _)
changesForEach(refs, changes, k) ==
    IF k > Len(changes) THEN refs
    ELSE changesForEach(forEachRef(refs, changes[k], 1, Len(refs)), changes, k + 1)

\* updateReferences, lines 92-102: the decorations set
updateReferences(refs) ==
    [k \in 1..Len(refs) |->
        [range |-> [startLineNumber |-> refs[k].range.startLineNumber,
                    startColumn |-> refs[k].range.startColumn,
                    endLineNumber |-> refs[k].range.endLineNumber,
                    endColumn |-> refs[k].range.startColumn
                        + (refs[k].range.endColumn - refs[k].range.startColumn) - 1],
         hoverMessage |-> refs[k].data]]

InColumns(refs) ==
    \A k \in 1..Len(refs) : refs[k].range.startColumn >= 1 /\ refs[k].range.endColumn <= MaxCol

InitRefs ==
    /\ input = <<>>
    /\ SortIdle
    /\ VisitIdle
    /\ RefsIdle
    /\ InputIdle
    /\ TermIdle

\* addReference(ref), lines 87-90
addReference(ref) ==
    /\ Len(references) < MaxTracked
    /\ references' = Append(references, ref)
    /\ decorations' = updateReferences(references')
    /\ touched' = [k \in 1..Len(references') |-> FALSE]
    /\ last' = "add"
    /\ was' = [k \in 1..Len(references') |-> IF k <= Len(references) THEN k ELSE 0]
    /\ ahead' = [k \in 1..Len(references') |-> FALSE]
    /\ shifted' = [k \in 1..Len(references') |-> FALSE]
    /\ UNCHANGED <<sortVars, visitVars, inputVars, termVars>>

\* the references with their indices
RECURSIVE tagged(_, _)
tagged(refs, k) ==
    IF k > Len(refs) THEN <<>>
    ELSE <<[range |-> refs[k].range, data |-> refs[k].data, was |-> k]>> \o tagged(refs, k + 1)

RECURSIVE untagged(_, _)
untagged(refs, k) ==
    IF k > Len(refs) THEN <<>>
    ELSE <<[range |-> refs[k].range, data |-> refs[k].data]>> \o untagged(refs, k + 1)

\* the listener of onDidChangeModelContent, lines 65-84, for an event e.  A
\* reference carries its index before the event through the loops, from which
\* touched is read off.
onDidChangeModelContent(e) ==
    \E left \in {changesForEach(tagged(references, 1), e.changes, 1)} :
       /\ InColumns(left)
       /\ references' = untagged(left, 1)
       /\ decorations' = updateReferences(references')
       /\ touched' = [k \in 1..Len(left) |->
                        \E j \in 1..Len(e.changes) :
                            areIntersecting(references[left[k].was].range, e.changes[j].range)]
       /\ last' = "change"
       /\ was' = [k \in 1..Len(left) |-> left[k].was]
       /\ ahead' = [k \in 1..Len(left) |->
                      \A j \in 1..Len(e.changes) :
                          compareRangesUsingStarts(references[left[k].was].range,
                                                   e.changes[j].range) < 0]
       /\ shifted' = [k \in 1..Len(left) |-> left[k].range # references[left[k].was].range]
       /\ UNCHANGED <<sortVars, visitVars, inputVars, termVars>>

\* The reference added is that of text just inserted (lines 569-574), which lies
\* in no tracked reference.  An event of several changes acts on this.references
\* as its changes one after the other (line 66), so the events drawn carry one.
NextRefs ==
    \/ \E range \in RefRanges, data \in Uris :
           /\ \A k \in 1..Len(references) : ~areIntersecting(references[k].range, range)
           /\ addReference([range |-> range, data |-> data])
    \/ \E range \in ChangeRanges, textLength \in 0..MaxText :
           onDidChangeModelContent([changes |-> <<Change(range, textLength)>>])

SpecRefs == InitRefs /\ [][NextRefs]_vars

\* ------------------------------------------------------------------------
\* InputEditorDecorations (lines 107-328) and InputEditorSlashCommandMode
\* (lines 330-359).  A string is the sequence of its characters.
\* ------------------------------------------------------------------------
IsWordChar(ch) == ch \in {"a", "c", "d", "s", "v", "x"}
IsSpace(ch) == ch = " "

\* the template literals `/${command} ` (lines 241, 242, 353) and `@${id} `
\* (lines 204, 221)
slashText(command) == <<"/">> \o command \o <<" ">>
agentText(id) == <<"@">> \o id \o <<" ">>

\* the names a slash command is submitted under
SubmittedCommands == {<<"c">>}
Sessions == {"s1", "s2"}

\* the values the input editor takes: what the user types and what
\* repopulateSlashCommand writes
Texts ==
    {<<>>, <<" ">>, <<"@", "v">>, <<"@", "a", " ">>, <<"@", "a", " ", "/", "s">>}
        \cup {slashText(c) : c \in SubmittedCommands}

\* widget.viewModel: sessionId and inputPlaceholder, <<>> for no placeholder
ViewModels ==
    {[sessionId |-> "s1", inputPlaceholder |-> <<>>],
     [sessionId |-> "s2", inputPlaceholder |-> <<"Ask the extension">>]}

\* what widget.getSlashCommands() resolves to.  undefined and the empty array
\* take the same branches (lines 177, 241, 352) and are both <<>>; an absent
\* detail or followupPlaceholder is "".
SlashCommandLists ==
    {<<>>,
     <<[command |-> <<"c">>, detail |-> "detail of c", followupPlaceholder |-> "followup of c",
        shouldRepopulate |-> TRUE]>>,
     <<[command |-> <<"d">>, detail |-> "", followupPlaceholder |-> "",
        shouldRepopulate |-> TRUE],
       [command |-> <<"c">>, detail |-> "", followupPlaceholder |-> "followup of c",
        shouldRepopulate |-> FALSE]>>}

\* chatAgentService.getAgents() (line 173) and chatVariablesService.getVariables()
\* (line 308)
Agents == <<[id |-> <<"a">>, description |-> "description of a", subCommands |-> <<<<"s">>>>]>>
Variables == {<<"v">>}

\* endColumn of the placeholder decorations, lines 187, 229, 252
PlaceholderEndColumn == 1000

\* String.prototype.trim (line 348)
RECURSIVE trimStart(_)
trimStart(s) == IF s # <<>> /\ IsSpace(Head(s)) THEN trimStart(Tail(s)) ELSE s

RECURSIVE trimEnd(_)
trimEnd(s) == IF s # <<>> /\ IsSpace(s[Len(s)]) THEN trimEnd(SubSeq(s, 1, Len(s) - 1)) ELSE s

trim(s) == trimEnd(trimStart(s))

\* String.prototype.startsWith
startsWith(s, p) == Len(s) >= Len(p) /\ SubSeq(s, 1, Len(p)) = p

\* Array.prototype.find, given the elements that satisfy the predicate, in their
\* order: <<>> for undefined, else the first in a sequence
find(satisfying) == IF satisfying = <<>> THEN <<>> ELSE <<satisfying[1]>>

\* the index after the run of word characters that starts at index i (\w+)
RECURSIVE wordEnd(_, _)
wordEnd(s, i) == IF i <= Len(s) /\ IsWordChar(s[i]) THEN wordEnd(s, i + 1) ELSE i

\* subCommandReg.exec(inputValue), line 211, /\/(\w+)(\s|$)/g: the first match
\* at or after index p (from 1), <<>> for null.  index counts from 0, as
\* subCommandMatch.index does; next is where the following exec begins.
RECURSIVE subCommandRegExec(_, _)
subCommandRegExec(s, p) ==
    IF p > Len(s) THEN <<>>
    ELSE LET e == wordEnd(s, p + 1) IN
         IF s[p] = "/" /\ e > p + 1 /\ (e > Len(s) \/ IsSpace(s[e]))
         THEN <<[index |-> p - 1, word |-> SubSeq(s, p + 1, e - 1),
                 next |-> IF e > Len(s) THEN e ELSE e + 1]>>
         ELSE subCommandRegExec(s, p + 1)

\* the loop of lines 211-218: usedSubcommand and subCommandPosition, <<>> for
\* undefined
RECURSIVE subCommandLoop(_, _, _)
subCommandLoop(s, p, usedAgent) ==
    LET subCommandMatch == subCommandRegExec(s, p) IN
    IF subCommandMatch = <<>> THEN [usedSubcommand |-> <<>>, subCommandPosition |-> <<>>]
    ELSE LET agentCommand == find(SelectSeq(usedAgent.subCommands,
                                           LAMBDA name : subCommandMatch[1].word = name))
         IN IF agentCommand # <<>>
            THEN [usedSubcommand |-> agentCommand,
                  subCommandPosition |-> <<subCommandMatch[1].index>>]
            ELSE subCommandLoop(s, subCommandMatch[1].next, usedAgent)

Range(startColumn, endColumn) ==
    [startLineNumber |-> 1, endLineNumber |-> 1,
     startColumn |-> startColumn, endColumn |-> endColumn]

\* the loop of lines 312-324 over variableReg, /(^|\s)@(\w+)(:\d+)?(?=(\s|$))/ig,
\* from index p (from 1): the decorations pushed.  g is the length of match[1].
\* The texts hold neither ':' nor a digit, so (:\d+)? matches nothing.
RECURSIVE variableLoop(_, _, _)
variableLoop(s, p, variables) ==
    IF p > Len(s) THEN <<>>
    ELSE LET g == IF p = 1 /\ s[p] = "@" THEN 0 ELSE 1
             e == wordEnd(s, p + g + 1)
         IN IF /\ (g = 0 \/ IsSpace(s[p]))
               /\ p + g <= Len(s)
               /\ s[p + g] = "@"
               /\ e > p + g + 1
               /\ (e > Len(s) \/ IsSpace(s[e]))
            THEN (IF SubSeq(s, p + g + 1, e - 1) \in variables
                  THEN <<[range |-> Range((p - 1) + g + 1, (p - 1) + (e - p) + 1)]>>
                  ELSE <<>>)
                     \o variableLoop(s, e, variables)
            ELSE variableLoop(s, p + 1, variables)

\* lines 173-199: the decorations after the branch of an empty inputValue, which
\* sets the placeholder type alone
emptyInputDecorations(slashCommands, vm, old) ==
    LET extensionPlaceholder == vm.inputPlaceholder
        defaultPlaceholder == IF Len(slashCommands) # 0
                              THEN "Ask a question or type '@' or '/'"
                              ELSE "Ask a question"
        placeholder == IF extensionPlaceholder # <<>> THEN extensionPlaceholder[1]
                       ELSE defaultPlaceholder
    IN [old EXCEPT !.placeholder =
            <<[range |-> Range(1, PlaceholderEndColumn), contentText |-> placeholder]>>]

\* lines 203-326: the decorations of the three types for a non-empty inputValue
textDecorationsOf(inputValue, slashCommands, used) ==
    LET usedAgent == find(SelectSeq(Agents, LAMBDA a : startsWith(inputValue, agentText(a.id))))
        sub == IF usedAgent # <<>> THEN subCommandLoop(inputValue, 1, usedAgent[1])
               ELSE [usedSubcommand |-> <<>>, subCommandPosition |-> <<>>]
        agentPlaceholder ==
            IF /\ usedAgent # <<>>
               /\ inputValue = agentText(usedAgent[1].id)
               /\ usedAgent[1].description # ""
            THEN <<[range |-> Range(Len(usedAgent[1].id), PlaceholderEndColumn),
                    contentText |-> usedAgent[1].description]>>
            ELSE <<>>
        command == IF usedAgent = <<>>
                   THEN find(SelectSeq(slashCommands,
                                      LAMBDA c : startsWith(inputValue, slashText(c.command))))
                   ELSE <<>>
        isFollowupSlashCommand == command # <<>> /\ command[1].command \in used
        shouldRenderFollowupPlaceholder ==
            command # <<>> /\ command[1].followupPlaceholder # "" /\ isFollowupSlashCommand
        placeholderDecoration ==
            IF /\ command # <<>>
               /\ inputValue = slashText(command[1].command)
               /\ (shouldRenderFollowupPlaceholder \/ command[1].detail # "")
            THEN <<[range |-> Range(Len(command[1].command), PlaceholderEndColumn),
                    contentText |-> IF shouldRenderFollowupPlaceholder
                                    THEN command[1].followupPlaceholder
                                    ELSE command[1].detail]>>
            ELSE agentPlaceholder
        textDecorations ==
            (IF usedAgent # <<>>
             THEN <<[range |-> Range(1, Len(usedAgent[1].id) + 2)]>>
                    \o (IF sub.usedSubcommand # <<>>
                        THEN <<[range |-> Range(sub.subCommandPosition[1] + 1,
                                                sub.subCommandPosition[1]
                                                    + Len(sub.usedSubcommand[1]) + 2)]>>
                        ELSE <<>>)
             ELSE <<>>)
                \o (IF command # <<>>
                    THEN <<[range |-> Range(1, Len(command[1].command) + 2)]>>
                    ELSE <<>>)
    IN [placeholder |-> placeholderDecoration,
        slashCommandText |-> textDecorations,
        variableText |-> variableLoop(inputValue, 1, Variables)]

\* updateInputEditorDecorations from line 173 on, once getSlashCommands has
\* resolved: the decorations of the editor, given those it had (old)
decorationsAfter(inputValue, slashCommands, vm, used, old) ==
    IF inputValue = <<>> THEN emptyInputDecorations(slashCommands, vm, old)
    ELSE textDecorationsOf(inputValue, slashCommands, used)

isEmptyAlways(v) == TRUE

\* line 348: this.widget.inputEditor.getValue().trim().length === 0
isEmpty(v) == Len(trim(v)) = 0

RunsPending == LET RECURSIVE Sum(_)
                   Sum(S) == IF S = {} THEN 0
                             ELSE LET t == CHOOSE x \in S : TRUE IN runs[t] + Sum(S \ {t})
               IN Sum(DOMAIN runs)

\* lines 170-172: updateInputEditorDecorations up to its await
updateInputEditorDecorations(inputValue) ==
    /\ RunsPending < MaxRuns
    /\ runs' = [runs EXCEPT ![inputValue] = @ + 1]

InitInput ==
    /\ input = <<>>
    /\ SortIdle
    /\ VisitIdle
    /\ RefsIdle
    /\ TermIdle
    /\ value = <<>>
    /\ viewModel \in ViewModels
    /\ previouslyUsedSlashCommands = {}
    /\ runs = [t \in Texts |-> IF t = <<>> THEN 2 ELSE 0]
    /\ repopulating = <<>>
    /\ inputDecorations = [placeholder |-> <<>>, slashCommandText |-> <<>>, variableText |-> <<>>]
    /\ written = <<>>

\* the user edits the input: the listener of line 129.  No reference is tracked
\* (RefsIdle), so the listener of lines 65-84 has nothing to do.
onDidChangeModelContentInput(text) ==
    /\ text # value
    /\ value' = text
    /\ updateInputEditorDecorations(text)
    /\ written' = <<>>
    /\ UNCHANGED <<sortVars, visitVars, refVars, termVars, viewModel, previouslyUsedSlashCommands,
                   repopulating, inputDecorations>>

\* the listener of lines 130-133
onDidChangeViewModel(vm) ==
    /\ vm # viewModel
    /\ viewModel' = vm
    /\ previouslyUsedSlashCommands' = {}
    /\ updateInputEditorDecorations(value)
    /\ written' = <<>>
    /\ UNCHANGED <<sortVars, visitVars, refVars, termVars, value, repopulating, inputDecorations>>

\* the listener of line 125: updateRegisteredDecorationTypes, lines 141-162
onDidColorThemeChange ==
    /\ updateInputEditorDecorations(value)
    /\ written' = <<>>
    /\ UNCHANGED <<sortVars, visitVars, refVars, termVars, value, viewModel, previouslyUsedSlashCommands,
                   repopulating, inputDecorations>>

\* chatService.onDidSubmitSlashCommand fires: the listener of lines 134-138, and
\* that of line 338, repopulateSlashCommand up to its await (lines 341-346)
onDidSubmitSlashCommand(slashCommand, sessionId) ==
    /\ previouslyUsedSlashCommands' =
          IF sessionId = viewModel.sessionId /\ slashCommand \notin previouslyUsedSlashCommands
          THEN previouslyUsedSlashCommands \cup {slashCommand}
          ELSE previouslyUsedSlashCommands
    /\ IF viewModel.sessionId # sessionId
       THEN UNCHANGED repopulating
       ELSE /\ Len(repopulating) < MaxRepopulating
            /\ repopulating' = Append(repopulating,
                   [slashCommand |-> slashCommand, sessionId |-> sessionId,
                    widgetSessionId |-> viewModel.sessionId])
    /\ written' = <<>>
    /\ UNCHANGED <<sortVars, visitVars, refVars, termVars, value, viewModel, runs, inputDecorations>>

\* a run of updateInputEditorDecorations goes on after its await, lines 173-326,
\* with what getSlashCommands resolved to
resumeUpdateInputEditorDecorations(inputValue, slashCommands) ==
    /\ runs[inputValue] > 0
    /\ runs' = [runs EXCEPT ![inputValue] = @ - 1]
    /\ inputDecorations' = decorationsAfter(inputValue, slashCommands, viewModel,
                                            previouslyUsedSlashCommands, inputDecorations)
    /\ written' = <<>>
    /\ UNCHANGED <<sortVars, visitVars, refVars, termVars, value, viewModel, previouslyUsedSlashCommands,
                   repopulating>>

\* the call of repopulateSlashCommand at index k of repopulating goes on after its
\* await, lines 348-357.  setValue fires the listener of line 129.
resumeRepopulateSlashCommand(k, slashCommands) ==
    /\ k \in 1..Len(repopulating)
    /\ repopulating' = SubSeq(repopulating, 1, k - 1)
                          \o SubSeq(repopulating, k + 1, Len(repopulating))
    /\ LET slashCommand == repopulating[k].slashCommand
           command == find(SelectSeq(slashCommands, LAMBDA c : c.command = slashCommand))
       IN IF ~isEmpty(value)
          THEN written' = <<>> /\ UNCHANGED <<value, runs>>
          ELSE IF command # <<>> /\ command[1].shouldRepopulate
          THEN /\ value' = slashText(slashCommand)
               /\ updateInputEditorDecorations(value')
               /\ written' = <<[slashCommand |-> slashCommand,
                                sessionId |-> repopulating[k].sessionId,
                                widgetSessionId |-> repopulating[k].widgetSessionId,
                                shouldRepopulate |-> command[1].shouldRepopulate,
                                overwritten |-> value,
                                column |-> Len(value') + 1]>>
          ELSE written' = <<>> /\ UNCHANGED <<value, runs>>
    /\ UNCHANGED <<sortVars, visitVars, refVars, termVars, viewModel, previouslyUsedSlashCommands,
                   inputDecorations>>

NextInput ==
    \/ \E text \in Texts : onDidChangeModelContentInput(text)
    \/ \E vm \in ViewModels : onDidChangeViewModel(vm)
    \/ onDidColorThemeChange
    \/ \E slashCommand \in SubmittedCommands, sessionId \in Sessions :
           onDidSubmitSlashCommand(slashCommand, sessionId)
    \/ \E inputValue \in Texts, slashCommands \in SlashCommandLists :
           resumeUpdateInputEditorDecorations(inputValue, slashCommands)
    \/ \E k \in 1..MaxRepopulating, slashCommands \in SlashCommandLists :
           resumeRepopulateSlashCommand(k, slashCommands)

SpecInput == InitInput /\ [][NextInput]_vars

\* ------------------------------------------------------------------------
\* terminalEnvironment.ts.  A string is the sequence of its characters; '\n',
\* '\t', '\0' (written "NUL"), the field names of /proc/<pid>/status and the extensions '.com'
\* and '.exe' are one element each.  An optional value is <<>> for undefined
\* and <<v>> for the value v.
\* ------------------------------------------------------------------------
\* String.prototype.indexOf(ch): from 0, -1 for none
RECURSIVE indexOfFrom(_, _, _)
indexOfFrom(s, ch, i) ==
    IF i > Len(s) THEN -1
    ELSE IF s[i] = ch THEN i - 1
    ELSE indexOfFrom(s, ch, i + 1)

indexOf(s, ch) == indexOfFrom(s, ch, 1)

\* String.prototype.substr(from, length): nothing for a length below 1
substr(s, from, length) ==
    IF length <= 0 THEN <<>>
    ELSE SubSeq(s, from + 1, IF from + length < Len(s) THEN from + length ELSE Len(s))

\* String.prototype.substr(from)
substrFrom(s, from) == SubSeq(s, from + 1, Len(s))

\* String.prototype.split(sep): the pieces between the separators
RECURSIVE split(_, _)
split(s, sep) ==
    LET i == indexOf(s, sep) IN
    IF i = -1 THEN <<s>>
    ELSE <<SubSeq(s, 1, i)>> \o split(SubSeq(s, i + 2, Len(s)), sep)

\* path.sep; the model writes every path with it (on Windows '/' stands for '\')
Sep == "/"

\* path.isAbsolute
isAbsolute(p) == Len(p) > 0 /\ p[1] = Sep

RECURSIVE withoutTrailingSeps(_)
withoutTrailingSeps(p) ==
    IF Len(p) > 1 /\ p[Len(p)] = Sep THEN withoutTrailingSeps(SubSeq(p, 1, Len(p) - 1)) ELSE p

\* the index (from 1) of the last separator of p, 0 for none
RECURSIVE lastSep(_, _)
lastSep(p, i) ==
    IF i = 0 THEN 0
    ELSE IF p[i] = Sep THEN i
    ELSE lastSep(p, i - 1)

\* path.dirname
dirname(p) ==
    LET q == withoutTrailingSeps(p)
        i == lastSep(q, Len(q))
    IN IF i = 0 THEN <<".">>
       ELSE IF i = 1 THEN <<Sep>>
       ELSE SubSeq(q, 1, i - 1)

\* path.basename
basename(p) ==
    LET q == withoutTrailingSeps(p) IN SubSeq(q, lastSep(q, Len(q)) + 1, Len(q))

\* path.normalize over the segments of a path: '' and '.' dropped, '..' taking
\* the segment before it
RECURSIVE normalizeSegments(_, _, _)
normalizeSegments(segs, done, absolute) ==
    IF segs = <<>> THEN done
    ELSE IF Head(segs) = <<>> \/ Head(segs) = <<".">>
    THEN normalizeSegments(Tail(segs), done, absolute)
    ELSE IF Head(segs) = <<".", ".">>
    THEN IF done # <<>> /\ done[Len(done)] # <<".", ".">>
         THEN normalizeSegments(Tail(segs), SubSeq(done, 1, Len(done) - 1), absolute)
         ELSE IF absolute THEN normalizeSegments(Tail(segs), done, absolute)
         ELSE normalizeSegments(Tail(segs), Append(done, Head(segs)), absolute)
    ELSE normalizeSegments(Tail(segs), Append(done, Head(segs)), absolute)

RECURSIVE joinWith(_, _)
joinWith(parts, sep) ==
    IF parts = <<>> THEN <<>>
    ELSE IF Len(parts) = 1 THEN parts[1]
    ELSE parts[1] \o <<sep>> \o joinWith(Tail(parts), sep)

\* path.join(...parts)
join(parts) ==
    LET joined == joinWith(SelectSeq(parts, LAMBDA part : part # <<>>), Sep)
        absolute == isAbsolute(joined)
        body == joinWith(normalizeSegments(split(joined, Sep), <<>>, absolute), Sep)
    IN IF joined = <<>> THEN <<".">>
       ELSE IF absolute THEN <<Sep>> \o body
       ELSE IF body = <<>> THEN <<".">>
       ELSE body

\* String.prototype.toLowerCase on the keys of the environments of findExecutable
toLowerCase(key) ==
    IF key \in {"PATH", "Path"} THEN "path"
    ELSE IF key = "HOME" THEN "home"
    ELSE key

\* getCaseInsensitive(env, key) of vs/base/common/objects: the value of the first
\* key of env equal to key but for case.  env is the sequence of its entries.
getCaseInsensitive(env, key) ==
    LET hit == SelectSeq(env, LAMBDA entry : toLowerCase(entry.key) = toLowerCase(key))
    IN IF hit = <<>> THEN <<>> ELSE <<hit[1].value>>

\* ---- findExecutable, lines 83-134 ----
\* process.cwd()
processCwd == <<"/", "p">>

\* path.delimiter
delimiter(isWindows) == IF isWindows THEN ";" ELSE ":"

extensionsExeFirst == <<".exe", ".com">>

\* the extensions tried on Windows, lines 122 and 126
extensions == <<".com", ".exe">>

\* exists(path), of vs/base/node/pfs, on the files there are
exists(path, files) == path \in files

\* lines 118-130 for one path entry: the path returned, <<>> to go on
RECURSIVE withExtensions(_, _, _, _)
withExtensions(fullPath, exts, k, files) ==
    IF k > Len(exts) THEN <<>>
    ELSE IF exists(fullPath \o <<exts[k]>>, files) THEN <<fullPath \o <<exts[k]>>>>
    ELSE withExtensions(fullPath, exts, k + 1, files)

tryEntry(fullPath, isWindows, files) ==
    IF exists(fullPath, files) THEN <<fullPath>>
    ELSE IF isWindows THEN withExtensions(fullPath, extensions, 1, files)
    ELSE <<>>

\* the loop of lines 109-131 from entry k on: the path returned, <<>> to go on
RECURSIVE forPathEntry(_, _, _, _, _, _)
forPathEntry(paths, k, command, cwd, isWindows, files) ==
    IF k > Len(paths) THEN <<>>
    ELSE LET pathEntry == paths[k]
             fullPath == IF isAbsolute(pathEntry) THEN join(<<pathEntry, command>>)
                         ELSE join(<<cwd, pathEntry, command>>)
             hit == tryEntry(fullPath, isWindows, files)
         IN IF hit # <<>> THEN hit
            ELSE forPathEntry(paths, k + 1, command, cwd, isWindows, files)

\* lines 86, 96, 105, 133: await exists(p) ? p : undefined
existing(path, files) == IF exists(path, files) THEN <<path>> ELSE <<>>

\* findExecutable(command, cwd, paths, env), lines 83-134: <<>> for undefined
findExecutable(a, isWindows, files) ==
    IF isAbsolute(a.command) THEN existing(a.command, files)
    ELSE LET cwd == IF a.cwd = <<>> THEN processCwd ELSE a.cwd[1]
             dir == dirname(a.command)
             envPath == getCaseInsensitive(a.env, "PATH")
             paths == IF a.paths = <<>> /\ envPath # <<>>
                      THEN <<split(envPath[1], delimiter(isWindows))>>
                      ELSE a.paths
         IN IF dir # <<".">> THEN existing(join(<<cwd, a.command>>), files)
            ELSE IF paths = <<>> \/ Len(paths[1]) = 0
            THEN existing(join(<<cwd, a.command>>), files)
            ELSE LET hit == forPathEntry(paths[1], 1, a.command, cwd, isWindows, files)
                 IN IF hit # <<>> THEN hit
                    ELSE existing(join(<<cwd, a.command>>), files)

\* the arguments of the calls made
FindCommands ==
    {<<"x">>, <<".", "/", "x">>, <<"d", "/", "x">>, <<"/", "b", "/", "x">>}
FindCwds == {<<>>, <<<<"/", "w">>>>}
FindPaths ==
    {<<>>, << <<>> >>, << <<<<"/", "b">>>> >>, << <<<<"r">>, <<"/", "b">>>> >>}
FindEnvs ==
    {<<>>,
     <<[key |-> "PATH", value |-> <<>>]>>,
     <<[key |-> "Path", value |-> <<"/", "b">>]>>,
     <<[key |-> "HOME", value |-> <<"/", "h">>],
       [key |-> "PATH", value |-> <<"r", ":", "/", "b">>]>>,
     <<[key |-> "PATH", value |-> <<"r", ";", "/", "b">>]>>}
\* the files there can be
Files ==
    {<<"/", "b", "/", "x">>, <<"/", "b", "/", "x", ".com">>, <<"/", "b", "/", "x", ".exe">>,
     <<"/", "w", "/", "x">>, <<"/", "w", "/", "r", "/", "x">>, <<"/", "w", "/", "d", "/", "x">>,
     <<"/", "p", "/", "x">>}

InitFind ==
    /\ input = <<>>
    /\ SortIdle
    /\ VisitIdle
    /\ RefsIdle
    /\ InputIdle
    /\ EnvIdle
    /\ platform \in {"linux", "windows"}
    /\ findArgs \in [command : FindCommands, cwd : FindCwds, paths : FindPaths, env : FindEnvs]
    /\ onDisk \in SUBSET Files
    /\ findResult = <<>>
    /\ findDone = FALSE

\* a call of findExecutable, from the call to the value its promise resolves to
FindExecutable ==
    /\ ~findDone
    /\ findResult' = findExecutable(findArgs, platform = "windows", onDisk)
    /\ findDone' = TRUE
    /\ UNCHANGED <<sortVars, visitVars, refVars, inputVars, envVars, platform, findArgs, onDisk>>

NextFind == FindExecutable

SpecFind == InitFind /\ [][NextFind]_vars

\* ---- getMainProcessParentEnv, lines 12-81 ----
\* An environment object is named by its index in heap, which holds the
\* variables of each: a function from names to values.
\* the processes of /proc are 1..MaxPid; the main process is MaxPid
Pids == 1..MaxPid

\* path.basename(process.argv[0]) is the Name of the code processes
Argv0 == <<"/", "o", "/", "c">>
ProcessNames == {<<"c">>, <<"s">>}

Digits == <<"1", "2", "3", "4", "5", "6", "7", "8", "9">>
DigitOf(n) == IF n = 0 THEN "0" ELSE Digits[n]

\* the text of /proc/<pid>/status of a process of name name and parent ppid
statusText(name, ppid) ==
    <<"Name:", "\t">> \o name \o <<"\n", "State:", "\t", "S", "\n", "PPid:", "\t", DigitOf(ppid), "\n">>

\* the variables of the environment of process pid, and the text of
\* /proc/<pid>/environ: name=value of each variable followed by '\0'
EnvironVars(pid) ==
    <<[name |-> <<"P">>, value |-> <<DigitOf(pid)>>],
      [name |-> <<"Q">>, value |-> <<"a", "=", "b">>]>>

RECURSIVE environTextOf(_)
environTextOf(variables) ==
    IF variables = <<>> THEN <<>>
    ELSE Head(variables).name \o <<"=">> \o Head(variables).value \o <<"NUL">>
            \o environTextOf(Tail(variables))

environText(pid) == environTextOf(EnvironVars(pid))

\* the process tables: for each pid a name and a parent of a lower pid, 0 for none
ProcessTables ==
    {t \in [Pids -> [name : ProcessNames, ppid : 0..MaxPid]] : \A p \in Pids : t[p].ppid < p}

\* readFile(`/proc/${pid}/status`) and readFile(`/proc/${pid}/environ`): <<>> when
\* the promise is rejected, there being no such process
readStatus(table, pid) ==
    IF pid \in DOMAIN table THEN <<statusText(table[pid].name, table[pid].ppid)>> ELSE <<>>
readEnviron(table, pid) ==
    IF pid \in DOMAIN table THEN <<environText(pid)>> ELSE <<>>

IsWhitespace(ch) == ch \in {" ", "\t"}

\* line.replace(/^Name:\s+/, '') and line.replace(/^PPid:\s+/, '') for a line that
\* begins with the field name
RECURSIVE dropWhitespace(_)
dropWhitespace(s) == IF s # <<>> /\ IsWhitespace(Head(s)) THEN dropWhitespace(Tail(s)) ELSE s

replaceField(line) ==
    IF Len(line) >= 2 /\ IsWhitespace(line[2]) THEN dropWhitespace(Tail(line)) ELSE line

\* parseInt of a string of digits, 0 standing for NaN (there is no /proc/0)
RECURSIVE parseIntFrom(_, _, _)
parseIntFrom(s, i, n) ==
    IF i <= Len(s) /\ \E d \in 0..9 : DigitOf(d) = s[i]
    THEN parseIntFrom(s, i + 1, 10 * n + (CHOOSE d \in 0..9 : DigitOf(d) = s[i]))
    ELSE n

parseInt(s) == parseIntFrom(s, 1, 0)

loopNever(name, codeProcessName) == FALSE

\* line 39: while (name === codeProcessName)
loopAgain(name, codeProcessName) == name = codeProcessName

\* lines 30-38: name and ppid after the lines from k on
RECURSIVE forEachLine(_, _, _, _)
forEachLine(splitByLine, k, name, ppid) ==
    IF k > Len(splitByLine) THEN [name |-> name, ppid |-> ppid]
    ELSE LET line == splitByLine[k]
             name2 == IF indexOf(line, "Name:") = 0 THEN replaceField(line) ELSE name
             ppid2 == IF indexOf(line, "PPid:") = 0 THEN parseInt(replaceField(line)) ELSE ppid
         IN forEachLine(splitByLine, k + 1, name2, ppid2)

\* env[k] = v on an object
setKey(env, k, v) == [x \in DOMAIN env \cup {k} |-> IF x = k THEN v ELSE env[x]]

\* lines 41-45: env after the entries from k on
RECURSIVE forEachEntry(_, _, _)
forEachEntry(entries, k, env) ==
    IF k > Len(entries) THEN env
    ELSE LET e == entries[k]
             i == indexOf(e, "=")
         IN forEachEntry(entries, k + 1, setKey(env, substr(e, 0, i), substrFrom(e, i + 1)))

parseEnviron(rawEnv) == forEachEntry(split(rawEnv, "NUL"), 1, <<>>)

rootEnvVarsWithPath ==
    <<"SHELL", "SSH_AUTH_SOCK", "Apple_PubSub_Socket_Render", "XPC_FLAGS", "XPC_SERVICE_NAME",
      "HOME", "LOGNAME", "TMPDIR", "PATH">>

\* lines 58-67
rootEnvVars ==
    <<"SHELL", "SSH_AUTH_SOCK", "Apple_PubSub_Socket_Render", "XPC_FLAGS", "XPC_SERVICE_NAME",
      "HOME", "LOGNAME", "TMPDIR">>

\* lines 68-72: the new object after the names from k on
RECURSIVE forEachRootEnvVar(_, _, _, _)
forEachRootEnvVar(names, k, baseEnvironment, env) ==
    IF k > Len(names) THEN env
    ELSE forEachRootEnvVar(names, k + 1, baseEnvironment,
             IF names[k] \in DOMAIN baseEnvironment /\ baseEnvironment[names[k]] # ""
             THEN setKey(env, names[k], baseEnvironment[names[k]])
             ELSE env)

\* the environments callers pass on macOS and Windows: each of some names with no
\* value, the empty value or a value
BaseNames == {"SHELL", "HOME", "TMPDIR", "PATH"}
BaseEnvironments ==
    UNION {[names -> {"", "v"}] : names \in SUBSET BaseNames}
OtherBase == [n \in {"SHELL", "XPC_FLAGS", "LANG"} |-> "w"]

InitEnv ==
    /\ input = <<>>
    /\ SortIdle
    /\ VisitIdle
    /\ RefsIdle
    /\ InputIdle
    /\ FindIdle
    /\ platform \in {"linux", "mac", "windows"}
    /\ IF platform = "linux"
       THEN procfs \in ProcessTables /\ heap = <<<<>>, <<>>>>
       ELSE procfs = <<>> /\ \E b \in BaseEnvironments : heap = <<b, OtherBase>>
    /\ mainProcessParentEnv = <<>>
    /\ calls = <<>>
    /\ started = 0
    /\ computations = 0
    /\ firstReturned = <<>>
    /\ returned = <<>>

\* what a call leaves behind when its promise is settled
Settled(call, outcome, result, computed) ==
    <<[outcome |-> outcome, result |-> result, computed |-> computed, late |-> call.late,
       baseEnvironment |-> call.baseEnvironment, base |-> call.base,
       pid |-> call.pid, reads |-> call.reads]>>

NewCall(baseEnvironment) ==
    [baseEnvironment |-> baseEnvironment, base |-> heap[baseEnvironment],
     late |-> firstReturned # <<>>, at |-> "call", pid |-> 0, ppid |-> 0, name |-> <<>>,
     reads |-> 0]

Return(call, result, computed) ==
    /\ returned' = Settled(call, "resolved", result, computed)
    /\ firstReturned' = IF firstReturned = <<>> THEN <<result>> ELSE firstReturned
    /\ computations' = computations + (IF computed THEN 1 ELSE 0)

\* getMainProcessParentEnv(baseEnvironment) is called, lines 14-17: the cached
\* object is returned
CallCached(baseEnvironment) ==
    /\ started < MaxCalls
    /\ mainProcessParentEnv # <<>>
    /\ started' = started + 1
    /\ Return(NewCall(baseEnvironment), mainProcessParentEnv[1], FALSE)
    /\ UNCHANGED <<sortVars, visitVars, refVars, inputVars, findVars, platform, procfs, heap,
                   mainProcessParentEnv, calls>>

\* the call on Linux, lines 14-29, up to its first await
CallLinux(baseEnvironment) ==
    /\ started < MaxCalls
    /\ mainProcessParentEnv = <<>>
    /\ platform = "linux"
    /\ started' = started + 1
    /\ LET mainProcessId == MaxPid
           codeProcessName == basename(Argv0)
       IN calls' = Append(calls, [NewCall(baseEnvironment) EXCEPT
                                     !.at = "status", !.pid = mainProcessId,
                                     !.ppid = mainProcessId, !.name = codeProcessName])
    /\ returned' = <<>>
    /\ UNCHANGED <<sortVars, visitVars, refVars, inputVars, findVars, platform, procfs, heap,
                   mainProcessParentEnv, computations, firstReturned>>

\* the call on macOS, lines 14-17 and 54-80
CallMac(baseEnvironment) ==
    /\ started < MaxCalls
    /\ mainProcessParentEnv = <<>>
    /\ platform = "mac"
    /\ started' = started + 1
    /\ heap' = Append(heap, forEachRootEnvVar(rootEnvVars, 1, heap[baseEnvironment], <<>>))
    /\ mainProcessParentEnv' = <<Len(heap')>>
    /\ Return(NewCall(baseEnvironment), Len(heap'), TRUE)
    /\ UNCHANGED <<sortVars, visitVars, refVars, inputVars, findVars, platform, procfs, calls>>

\* the call on Windows, lines 14-17 and 76-80
CallWindows(baseEnvironment) ==
    /\ started < MaxCalls
    /\ mainProcessParentEnv = <<>>
    /\ platform = "windows"
    /\ started' = started + 1
    /\ mainProcessParentEnv' = <<baseEnvironment>>
    /\ Return(NewCall(baseEnvironment), baseEnvironment, TRUE)
    /\ UNCHANGED <<sortVars, visitVars, refVars, inputVars, findVars, platform, procfs, heap,
                   calls>>

without(seq, k) == SubSeq(seq, 1, k - 1) \o SubSeq(seq, k + 1, Len(seq))

\* readFile of line 29 is settled for the call at index k of calls: lines 30-39,
\* and line 28 and 29 again or line 40
ResumeStatus(k) ==
    /\ k \in 1..Len(calls)
    /\ calls[k].at = "status"
    /\ LET call == calls[k]
           status == readStatus(procfs, call.pid)
       IN IF status = <<>>
          THEN /\ calls' = without(calls, k)
               /\ returned' = Settled(call, "rejected", 0, FALSE)
          ELSE LET after == forEachLine(split(status[1], "\n"), 1, call.name, call.ppid)
                   codeProcessName == basename(Argv0)
               IN /\ calls' = SubSeq(calls, 1, k - 1)
                       \o <<IF loopAgain(after.name, codeProcessName)
                            THEN [call EXCEPT !.pid = after.ppid, !.ppid = after.ppid,
                                              !.name = after.name, !.reads = @ + 1]
                            ELSE [call EXCEPT !.at = "environ", !.ppid = after.ppid,
                                              !.name = after.name, !.reads = @ + 1]>>
                       \o SubSeq(calls, k + 1, Len(calls))
                  /\ returned' = <<>>
    /\ UNCHANGED <<sortVars, visitVars, refVars, inputVars, findVars, platform, procfs, heap,
                   mainProcessParentEnv, started, computations, firstReturned>>

\* readFile of line 40 is settled for the call at index k of calls: lines 41-46, 80
ResumeEnviron(k) ==
    /\ k \in 1..Len(calls)
    /\ calls[k].at = "environ"
    /\ LET call == calls[k]
           rawEnv == readEnviron(procfs, call.pid)
       IN /\ calls' = without(calls, k)
          /\ IF rawEnv = <<>>
             THEN /\ returned' = Settled(call, "rejected", 0, FALSE)
                  /\ UNCHANGED <<heap, mainProcessParentEnv, computations, firstReturned>>
             ELSE /\ heap' = Append(heap, parseEnviron(rawEnv[1]))
                  /\ mainProcessParentEnv' = <<Len(heap')>>
                  /\ Return(call, Len(heap'), TRUE)
    /\ UNCHANGED <<sortVars, visitVars, refVars, inputVars, findVars, platform, procfs, started>>

NextEnv ==
    \/ \E baseEnvironment \in 1..2 : CallCached(baseEnvironment)
    \/ \E baseEnvironment \in 1..2 : CallLinux(baseEnvironment)
    \/ \E baseEnvironment \in 1..2 : CallMac(baseEnvironment)
    \/ \E baseEnvironment \in 1..2 : CallWindows(baseEnvironment)
    \/ \E k \in 1..MaxCalls : ResumeStatus(k)
    \/ \E k \in 1..MaxCalls : ResumeEnviron(k)

SpecEnv == InitEnv /\ [][NextEnv]_vars

\* ------------------------------------------------------------------------
\* The words of the claims about the sort, over the input of the call
\* ------------------------------------------------------------------------
\* C declares a yield-reference to D, D present and of a different identifier
Resolved(cmds, c, d) ==
    /\ cmds[d].command # cmds[c].command
    /\ \E y \in 1..Len(cmds[c].yieldsTo) : cmds[c].yieldsTo[y].command = cmds[d].command

RECURSIVE ReachSet(_, _)
ReachSet(cmds, S) ==
    LET T == S \cup {d \in Indices(cmds) : \E c \in S : Resolved(cmds, c, d)}
    IN IF T = S THEN S ELSE ReachSet(cmds, T)

\* the commands reached from c over one or more resolved yield-references
ReachPlus(cmds, c) == ReachSet(cmds, {d \in Indices(cmds) : Resolved(cmds, c, d)})

OnCycle(cmds, c) == c \in ReachPlus(cmds, c)
HasCycle(cmds) == \E c \in Indices(cmds) : OnCycle(cmds, c)

Count(seq, x) == Cardinality({k \in 1..Len(seq) : seq[k] = x})

IsPermutation(cmds, out) ==
    /\ Len(out) = Len(cmds)
    /\ \A i \in Indices(cmds) : Count(out, i) = 1

\* every occurrence of c in out has an occurrence of d before it
ComesAfter(out, c, d) ==
    \A p \in 1..Len(out) : out[p] = c => \E q \in 1..(p-1) : out[q] = d

\* a yieldsTo entry naming an identifier no command of the input carries
Dangling(cmds, yTo) == \A j \in Indices(cmds) : cmds[j].command # yTo.command

StripDangling(cmds) ==
    [i \in 1..Len(cmds) |->
        [cmds[i] EXCEPT !.yieldsTo = SelectSeq(@, LAMBDA yTo : ~Dangling(cmds, yTo))]]

HasDangling(cmds) ==
    \E i \in Indices(cmds) : \E y \in 1..Len(cmds[i].yieldsTo) : Dangling(cmds, cmds[i].yieldsTo[y])

NoYieldRefs(cmds) == \A i \in Indices(cmds) : cmds[i].yieldsTo = <<>>

\* a command that declares no resolved yield-reference and is the target of none
Unconstrained(cmds, u) ==
    \A o \in Indices(cmds) : ~Resolved(cmds, u, o) /\ ~Resolved(cmds, o, u)

HasDuplicateIds(cmds) ==
    \E i, j \in Indices(cmds) : i # j /\ cmds[i].command = cmds[j].command

\* C1: the output is a permutation of the input, for every input (cycles included)
C1_Permutation == called => IsPermutation(input, output)

\* C2: if C yields to D, both present, and neither lies on a cycle of the yield
\* relation, then D precedes C in the output, also when other commands form a cycle
C2_Ordering ==
    called =>
        \A c, d \in Indices(input) :
            (Resolved(input, c, d) /\ ~OnCycle(input, c) /\ ~OnCycle(input, d))
                => ComesAfter(output, c, d)

\* C3: with no yield-reference in the input the output is the input order, returned
\* by the early return of line 671
C3_Identity ==
    (called /\ NoYieldRefs(input)) => (output = ArrayFrom(input) /\ early)

C3_Witness == called /\ NoYieldRefs(input) /\ Len(input) >= 2 /\ output = ArrayFrom(input) /\ early

\* C5: dangling yield-references change nothing: the output is that of the input
\* without them, and the input order when every yield-reference is dangling
C5_Dangling ==
    called =>
        /\ output = sortSlashCommandsByYieldTo(StripDangling(input)).res
        /\ NoYieldRefs(StripDangling(input)) => output = ArrayFrom(input)

C5_Witness ==
    /\ called
    /\ HasDangling(input)
    /\ ~NoYieldRefs(StripDangling(input))
    /\ output # ArrayFrom(input)

\* C6: two commands that neither declare a resolved yield-reference nor are the
\* target of one keep their input order in the output
C6_Stable ==
    called =>
        \A u, v \in Indices(input) :
            (u < v /\ Unconstrained(input, u) /\ Unconstrained(input, v))
                => /\ Count(output, u) >= 1
                   /\ Count(output, v) >= 1
                   /\ \A p, q \in 1..Len(output) : (output[p] = u /\ output[q] = v) => p < q

C6_Witness ==
    /\ called
    /\ \E u, v \in Indices(input) :
        /\ u < v /\ Unconstrained(input, u) /\ Unconstrained(input, v)
        /\ \E c \in Indices(input) : u < c /\ c < v /\ ~Unconstrained(input, c)
    /\ output # ArrayFrom(input)

\* C7: a warning is emitted iff the resolved yield relation has a cycle, and every
\* warning names a command on a cycle
C7_Warning ==
    called =>
        /\ (warned # <<>>) <=> HasCycle(input)
        /\ \A w \in 1..Len(warned) : OnCycle(input, warned[w])

C7_Witness ==
    /\ called
    /\ Len(warned) >= 1
    /\ \E i \in Indices(input) : ~OnCycle(input, i) /\ ~Unconstrained(input, i)

\* C8: with duplicate identifiers and no cycle, every element occurrence of the
\* input is in the output exactly once
C8_Duplicates ==
    (called /\ HasDuplicateIds(input) /\ ~HasCycle(input)) => IsPermutation(input, output)

C8_Witness ==
    /\ called /\ ~HasCycle(input) /\ ~early
    /\ \E i, j, c \in Indices(input) :
        /\ i # j /\ input[i].command = input[j].command
        /\ Resolved(input, c, i) /\ Resolved(input, c, j)
        /\ c < i

\* C9: every input element occurs at least once in the output, and the output holds
\* nothing but input elements
C9_Elements ==
    called =>
        /\ \A i \in Indices(input) : Count(output, i) >= 1
        /\ \A k \in 1..Len(output) : output[k] \in Indices(input)

C9_Witness == called /\ HasCycle(input) /\ Len(output) > Len(input)

\* the calls of visit a call of the sort can make: one per node of a list and one
\* for its end, for the input array and for the array of each entry of yieldsToMap
CallBound(cmds, map) ==
    LET RECURSIVE Sum(_)
        Sum(S) == IF S = {} THEN 0
                  ELSE LET i == CHOOSE x \in S : TRUE IN Len(map[i]) + 1 + Sum(S \ {i})
    IN Len(cmds) + 1 + Sum(DOMAIN map)

\* C4: the call terminates and returns a sequence without an error, and visit never
\* enters a command that is on tempStack: no command is twice on tempStack, a step
\* is possible until the call has returned, the steps are bounded by twice the
\* calls of visit the lists allow, and what is returned is a sequence of commands
C4_Terminates ==
    /\ \A p, q \in 1..Len(tempStack) : p # q => tempStack[p] # tempStack[q]
    /\ pc # "done" => ENABLED NextVisit
    /\ steps <= 2 * CallBound(input, yMap) + 2
    /\ pc = "done" => /\ called
                      /\ \A k \in 1..Len(output) : output[k] \in Indices(input)

C4_Witness ==
    /\ pc = "done"
    /\ Len(warned) >= 1
    /\ \E i, j, k \in Indices(input) :
        Resolved(input, i, j) /\ Resolved(input, j, k) /\ Resolved(input, k, i)

\* C10: after the handler of a content-change event no tracked reference remains
\* whose range intersected the range of a change of the event
C10_TouchedRemoved ==
    last = "change" => \A k \in 1..Len(references) : ~touched[k]

\* C11: the listener of a content change alters neither the line numbers nor the
\* data nor the width (endColumn - startColumn) of a reference it leaves, leaves a
\* reference that starts before every change of the event as it was, and adds no
\* reference: what it leaves are references it found, in their order.  addReference
\* leaves the references as they were and appends one.
C11_Frame ==
    [][/\ last' = "change" =>
            /\ Len(references') <= Len(references)
            /\ \A k \in 1..Len(references') :
                  /\ was'[k] \in 1..Len(references)
                  /\ \A j \in 1..(k - 1) : was'[j] < was'[k]
                  /\ references'[k].data = references[was'[k]].data
                  /\ references'[k].range.startLineNumber
                        = references[was'[k]].range.startLineNumber
                  /\ references'[k].range.endLineNumber
                        = references[was'[k]].range.endLineNumber
                  /\ references'[k].range.endColumn - references'[k].range.startColumn
                        = references[was'[k]].range.endColumn
                            - references[was'[k]].range.startColumn
                  /\ ahead'[k] => references'[k] = references[was'[k]]
       /\ last' = "add" =>
            /\ Len(references') = Len(references) + 1
            /\ SubSeq(references', 1, Len(references)) = references
       /\ Len(references') > Len(references) => last' = "add"]_vars

\* a change left two references, one that started before it and one it moved
C11_Witness ==
    /\ last = "change"
    /\ \E k, m \in 1..Len(references) : ahead[k] /\ ~shifted[k] /\ shifted[m]

IsBlank(s) == \A i \in 1..Len(s) : s[i] = " "

\* C12: repopulateSlashCommand writes '/<command> ' into the input only for a
\* submitted session id that was the widget's when the command was submitted, for
\* a command whose shouldRepopulate is set, and over an input that is empty or
\* holds nothing but whitespace when it is written: text typed during the await
\* is never overwritten
C12_NoOverwrite ==
    \A w \in 1..Len(written) :
        /\ written[w].sessionId = written[w].widgetSessionId
        /\ written[w].shouldRepopulate
        /\ IsBlank(written[w].overwritten)
        /\ value = <<"/">> \o written[w].slashCommand \o <<" ">>

\* repopulateSlashCommand wrote over whitespace typed during its await
C12_Witness ==
    /\ written # <<>>
    /\ written[1].overwritten = <<" ">>

\* the decorations updateInputEditorDecorations sets for the input v, for some
\* result of getSlashCommands, some view model and some set of used commands; an
\* empty input sets the placeholder type alone
CurrentFor(v, shown) ==
    \E slashCommands \in SlashCommandLists, vm \in ViewModels, used \in SUBSET SubmittedCommands :
        LET d == decorationsAfter(v, slashCommands, vm, used, shown)
        IN d = shown

\* C13: once no run of updateInputEditorDecorations is pending, the placeholder,
\* slash-command and variable decorations are those computed from the value the
\* editor holds, in whatever order the awaited calls resolved
C13_Current == RunsPending = 0 => CurrentFor(value, inputDecorations)

\* the search path of a call of findExecutable: the argument paths, else the PATH
\* of env split at the delimiter; <<>> for none
SearchPath(a, isWindows) ==
    IF a.paths # <<>> THEN a.paths
    ELSE IF getCaseInsensitive(a.env, "PATH") # <<>>
    THEN <<split(getCaseInsensitive(a.env, "PATH")[1], delimiter(isWindows))>>
    ELSE <<>>

\* a relative command has a directory part when path.dirname gives one: './x'
\* and 'x' have none
HasDirectoryPart(command) == dirname(command) # <<".">>

Under(cwd, path) == IF isAbsolute(path) THEN path ELSE join(<<cwd, path>>)

RECURSIVE EntryCandidates(_, _, _, _)
EntryCandidates(entries, command, cwd, isWindows) ==
    IF entries = <<>> THEN <<>>
    ELSE LET p == Under(cwd, join(<<Head(entries), command>>))
         IN <<p>> \o (IF isWindows THEN <<p \o <<".com">>, p \o <<".exe">>>> ELSE <<>>)
               \o EntryCandidates(Tail(entries), command, cwd, isWindows)

\* the candidates of a call, in their order
Candidates(a, isWindows) ==
    LET cwd == IF a.cwd = <<>> THEN processCwd ELSE a.cwd[1]
        searchPath == SearchPath(a, isWindows)
    IN IF isAbsolute(a.command) THEN <<a.command>>
       ELSE IF HasDirectoryPart(a.command) \/ searchPath = <<>> \/ searchPath[1] = <<>>
       THEN <<Under(cwd, a.command)>>
       ELSE EntryCandidates(searchPath[1], a.command, cwd, isWindows)
               \o <<Under(cwd, a.command)>>

C15_ComputedOnce ==
    /\ computations <= 1
    /\ \A r \in 1..Len(returned) :
          (returned[r].outcome = "resolved" /\ returned[r].late)
              => /\ returned[r].result = firstReturned[1]
                 /\ ~returned[r].computed

\* the pids from pid up the parents of table
RECURSIVE Chain(_, _)
Chain(table, pid) ==
    IF pid \notin DOMAIN table THEN <<>> ELSE <<pid>> \o Chain(table, table[pid].ppid)

\* the places of the chain from the main process whose process is not a code process
Others(table) ==
    {k \in 1..Len(Chain(table, MaxPid)) : table[Chain(table, MaxPid)[k]].name # basename(Argv0)}

FirstOther(table) == CHOOSE k \in Others(table) : \A j \in Others(table) : k <= j

\* C16: on Linux the walk from process.ppid up the PPid of the status files stops
\* at the first process whose Name is not the code process name and returns the
\* variables of that process's environ, each split at its first '='; it never
\* returns the environment of a code process, and it ends when the chain has a
\* process of another name: it makes one read per process up to that one
C16_Walk ==
    platform = "linux" =>
        /\ \A k \in 1..Len(calls) :
              Others(procfs) # {} =>
                  /\ calls[k].at = "status" => calls[k].reads < FirstOther(procfs)
                  /\ calls[k].at = "environ" => calls[k].reads = FirstOther(procfs)
        /\ \A r \in 1..Len(returned) :
              /\ returned[r].outcome = "rejected" => Others(procfs) = {}
              /\ (returned[r].outcome = "resolved" /\ returned[r].computed) =>
                    /\ Others(procfs) # {}
                    /\ returned[r].pid = Chain(procfs, MaxPid)[FirstOther(procfs)]
                    /\ procfs[returned[r].pid].name # basename(Argv0)
                    /\ returned[r].reads = FirstOther(procfs)
                    /\ LET env == heap[returned[r].result]
                           variables == EnvironVars(returned[r].pid)
                       IN /\ \A v \in 1..Len(variables) :
                                /\ variables[v].name \in DOMAIN env
                                /\ env[variables[v].name] = variables[v].value
                          /\ DOMAIN env \ {<<>>}
                                = {variables[v].name : v \in 1..Len(variables)}

\* a walk passed two code processes and returned the environment of the third
C16_Witness ==
    /\ platform = "linux"
    /\ returned # <<>>
    /\ returned[1].outcome = "resolved"
    /\ returned[1].reads = 3
    /\ returned[1].pid = 1

Allowlist ==
    {"SHELL", "SSH_AUTH_SOCK", "Apple_PubSub_Socket_Render", "XPC_FLAGS", "XPC_SERVICE_NAME",
     "HOME", "LOGNAME", "TMPDIR"}

\* C17: on macOS a call that finds no cached environment returns a new object
\* whose names are the allowlisted names that have a non-empty value in
\* baseEnvironment, each with that value, and leaves baseEnvironment as it was
C17_Allowlist ==
    platform = "mac" =>
        \A r \in 1..Len(returned) :
            returned[r].computed =>
                LET env == heap[returned[r].result]
                    base == returned[r].base
                IN /\ returned[r].result \notin {1, 2}
                   /\ returned[r].result # returned[r].baseEnvironment
                   /\ DOMAIN env = {n \in Allowlist : n \in DOMAIN base /\ base[n] # ""}
                   /\ \A n \in DOMAIN env : env[n] = base[n]
                   /\ heap[returned[r].baseEnvironment] = base

\* baseEnvironment had an allowlisted name with a value, one with the empty value
\* and a name off the allowlist
C17_Witness ==
    /\ platform = "mac"
    /\ returned # <<>>
    /\ returned[1].computed
    /\ "PATH" \in DOMAIN returned[1].base
    /\ "HOME" \in DOMAIN returned[1].base
    /\ returned[1].base["HOME"] = ""
    /\ DOMAIN heap[returned[1].result] = {"SHELL"}

====
